---- MODULE Spec2Model ----
(***************************************************************************)
(* State-machine model of the dhis2-alma scheduling service:               *)
(*   - the HTTP handlers of the schedule API (create, update, start, stop, *)
(*     delete, progress stream),                                           *)
(*   - the timer registry (runningJobs) and the node-cron tasks it holds,  *)
(*   - the job body queryDHIS2 with its suspension points,                 *)
(*   - process start-up (initializeSystem / restoreActiveSchedules).       *)
(* The two SQLite tables (schedules, job_executions) survive a process     *)
(* restart; timers, in-flight timer runs and subscribers do not.           *)
(***************************************************************************)
EXTENDS Integers, Sequences, FiniteSets, TLC

(* ------------------------------ bounds --------------------------------- *)
\* number of schedule ids crypto.randomUUID() hands out in one behaviour
MaxSchedules == 2
\* number of job ids crypto.randomUUID() hands out in one behaviour
MaxJobs == 2
\* number of instants new Date() hands out in one behaviour
MaxTime == 5
\* the instants of them that are left when a behaviour of the whole server
\* begins; the specifications of single features begin with all of them left
MaxServerTime == 4
\* number of progress streams one server process opens
MaxSubs == 2
\* the latest instant a next run time is asked at
MaxInstant == 24
\* number of organisation units a run's progress is computed over
MaxUnits == 14

(* --------------------------- value domains ----------------------------- *)
\* SQL NULL in the integer columns currentJobId, lastRun, endTime
NULL == 0
\* the handle recorded for a run that no timer started (runManually)
NoTimer == 0

\* the recurrence expressions, by what the two cron libraries make of them:
\*   "c1", "c2"  two expressions both libraries take, such as "0 0 * * *"
\*   "feb30"     "0 0 30 2 *": each field is in range, no date matches
\*   "january"   "0 0 1 January *": node-cron converts full month names,
\*               cron-parser resolves three-letter aliases only
\*   "bad"       a string neither library takes
CronExpressions == {"c1", "c2", "feb30", "january", "bad"}

\* the recurrence expressions cron.validate (node-cron) accepts
ValidCron == {"c1", "c2", "feb30", "january"}

\* responses of GET organisationUnits/<ou>.json: the ids of the organisation
\* units in it.  DHIS2 uids have 11 characters and schedule ids are UUIDs of
\* 36, so no unit id is a schedule id.
UnitResponses == {<<>>, <<101>>, <<101, 102>>}

(* ------------------------------ state ---------------------------------- *)
VARIABLES
    schedules,            \* table schedules: id -> row
    job_executions,       \* table job_executions: job id -> row
    runningJobs,          \* Map<string, cron.ScheduledTask>: id -> timer handle
    timers,               \* the started node-cron tasks of this process
    runs,                 \* suspended invocations of queryDHIS2: job id -> frame
    progressSubscribers,  \* Map<string, Set<subscriber>>: id -> set of handles
    streams,              \* the progress streams this process opened: handle ->
                          \* the id it is about, the records written to it,
                          \* whether its connection has aborted
    now,                  \* the instant the last new Date() returned
    nextId,               \* schedule ids handed out so far
    nextJob,              \* job ids handed out so far
    serving,              \* the server process is up and serves requests
    last                  \* the operation that made the last step, its outcome

vars == <<schedules, job_executions, runningJobs, timers, runs,
          progressSubscribers, streams, now, nextId, nextJob, serving, last>>

(* --------------------------- table helpers ----------------------------- *)
EmptyMap == [x \in {} |-> NULL]

Put(f, k, v) == [x \in DOMAIN f \cup {k} |-> IF x = k THEN v ELSE f[x]]

Drop(f, k) == [x \in DOMAIN f \ {k} |-> f[x]]

\* { ...a, ...b }: the fields of b laid over the fields of a
Spread(a, b) ==
    [f \in DOMAIN a \cup DOMAIN b |-> IF f \in DOMAIN b THEN b[f] ELSE a[f]]

\* UPDATE <tbl> SET <patch> WHERE id = <id>: touches no row when none matches
UpdateWhere(tbl, id, patch) ==
    [x \in DOMAIN tbl |-> IF x = id THEN Spread(tbl[x], patch) ELSE tbl[x]]

\* destructuring with a default: const { f = d } = body
Field(body, f, d) == IF f \in DOMAIN body THEN body[f] ELSE d

\* the record of the operation that made the step: the handler or step, the
\* schedule id it was about, the HTTP status it answered (for a step of the
\* job body: the job id), and the timer or stream handle it involved; a
\* create request also records its body
Op(op, id, code, h) == [op |-> op, id |-> id, code |-> code, h |-> h]

(* --------------------------- cron library ------------------------------ *)
isValidCronExpression(cronExp) == cronExp \in ValidCron

\* cronParser.parseExpression(cronExp) returns an interval: it throws on a
\* string it cannot parse, on an alias it cannot resolve and on a day of
\* month that the one month given never has
CronParses(cronExp) == cronExp \in {"c1", "c2"}

\* the instants expression cronExp matches: one instant in every
\* CronPeriod(cronExp) of them, none for an expression no date matches
CronPeriod(cronExp) ==
    CASE cronExp = "c1" -> 2
      [] cronExp = "c2" -> 3
      [] cronExp = "january" -> 5
      [] OTHER -> 0

CronMatches(cronExp, x) ==
    CronPeriod(cronExp) > 0 /\ x % CronPeriod(cronExp) = 0

\* interval.next() had it started at the current instant itself
getNextRunTimeFromNow(cronExp, t) ==
    IF ~CronParses(cronExp)
    THEN NULL
    ELSE CHOOSE x \in t..(t + CronPeriod(cronExp)) :
            /\ CronMatches(cronExp, x)
            /\ \A y \in t..(x - 1) : ~CronMatches(cronExp, y)

\* getNextRunTime(cronExp) evaluated at instant t: interval.next() is the
\* first matching instant after t; catch (error) { return null }
getNextRunTime(cronExp, t) ==
    IF ~CronParses(cronExp)
    THEN NULL
    ELSE CHOOSE x \in (t + 1)..(t + CronPeriod(cronExp)) :
            /\ CronMatches(cronExp, x)
            /\ \A y \in (t + 1)..(x - 1) : ~CronMatches(cronExp, y)

(* ---------------------------- schedule.ts ------------------------------ *)
\* the Schedule object built from a row; id is carried along
scheduleFromRow(id, row) == Spread(row, [id |-> id])

\* a task object is a fresh object: the smallest handle that no started
\* task carries and no suspended invocation still refers to
FreshHandle(ts, rs) ==
    CHOOSE h \in 1..(Cardinality(ts) + Cardinality(DOMAIN rs) + 1) :
        /\ \A t \in ts : t.h # h
        /\ \A j \in DOMAIN rs : rs[j].timer # h
        /\ \A k \in 1..(h - 1) :
              (\E t \in ts : t.h = k) \/ (\E j \in DOMAIN rs : rs[j].timer = k)

\* cron.schedule(...) throws on an expression node-cron rejects
CanArm(schedule) == isValidCronExpression(schedule.cronExpression)

\* job = cron.schedule(...); job.start(): the set of started tasks
ArmedTimers(ts, schedule, h) == ts \cup {[h |-> h, schedule |-> schedule]}

\* runningJobs.set(schedule.id, job)
ArmedRegistry(reg, schedule, h) == Put(reg, schedule.id, h)

\* job.stop(); runningJobs.delete(id), when runningJobs.get(id) is a job
DisarmedTimers(reg, ts, id) ==
    IF id \in DOMAIN reg THEN {t \in ts : t.h # reg[id]} ELSE ts

DisarmedRegistry(reg, id) == Drop(reg, id)

(* ----------------------- progress broadcaster -------------------------- *)
\* the ProgressUpdate record; the timestamp is the instant it was built at
ProgressUpdate(id, progress, status, message, t) ==
    [scheduleId |-> id, progress |-> progress, status |-> status,
     message |-> message, timestamp |-> t]

\* the function had it no lookup by update.scheduleId: every open stream is
\* written the record
broadcastToAll(subs, strs, update) ==
    [h \in DOMAIN strs |-> [strs[h] EXCEPT !.written = Append(@, update)]]

\* subscribers.forEach(subscriber => subscriber(eventData)): the streams
\* after one record was written to every subscriber of update.scheduleId
broadcastProgress(subs, strs, update) ==
    IF update.scheduleId \in DOMAIN subs
    THEN [h \in DOMAIN strs |->
            IF h \in subs[update.scheduleId]
            THEN [strs[h] EXCEPT !.written = Append(@, update)]
            ELSE strs[h]]
    ELSE strs

\* schedule.ts cleanupRunningJobs: the schedules table after every row with
\* status 'running' was forced to 'failed'.  initializeSystem does not call
\* it (the call is commented out), so no action of the model uses it.
cleanupRunningJobs(tbl, t) ==
    [x \in DOMAIN tbl |->
        IF tbl[x].status = "running"
        THEN Spread(tbl[x], [status |-> "failed", progress |-> 0,
                             updatedAt |-> t, lastRun |-> t])
        ELSE tbl[x]]

(* ------------------------------ Init ----------------------------------- *)
\* the state after module load, new Date() about to hand out instant t0 + 1
\* (the tables are empty: the database file is created by the first load)
Boot(t0) ==
    /\ schedules = EmptyMap
    /\ job_executions = EmptyMap
    /\ runningJobs = EmptyMap
    /\ timers = {}
    /\ runs = EmptyMap
    /\ progressSubscribers = EmptyMap
    /\ streams = EmptyMap
    /\ now = t0
    /\ nextId = 0
    /\ nextJob = 0
    /\ serving = TRUE
    /\ last = Op("boot", NULL, 0, NoTimer)

\* the process is up at some instant at which a next run time is asked
InitCron == \E t0 \in 0..MaxInstant : Boot(t0)

\* the whole server begins with MaxServerTime instants left
Init == Boot(MaxTime - MaxServerTime)

\* a single feature begins with MaxTime instants left
InitFeature == Boot(0)

(* ------------------------- POST /schedules ----------------------------- *)
BaseBody ==
    [name |-> "daily", cronExpression |-> "c1", task |-> "sync",
     pe |-> "LAST_MONTH", ou |-> 101, scorecard |-> 1,
     includeChildren |-> TRUE]

\* request bodies of POST /schedules
CreateBodies ==
    { BaseBody,
      Spread(BaseBody, [includeChildren |-> FALSE, maxRetries |-> 10,
                        retryDelay |-> 3600]),
      Spread(BaseBody, [name |-> ""]),
      [name |-> "daily", cronExpression |-> "c1"],
      Spread(BaseBody, [cronExpression |-> "bad"]),
      Spread(BaseBody, [maxRetries |-> 11]),
      Spread(BaseBody, [retryDelay |-> 3601]) }

\* request bodies of POST /schedules, field by field: each of name,
\* cronExpression and task present, empty or missing, and the retry fields
\* missing, at their bounds and one off them
CreateInputs ==
    {Spread(Spread(Spread(Spread(Spread(
        [pe |-> "LAST_MONTH", ou |-> 101, scorecard |-> 1,
         includeChildren |-> TRUE], n), c), t), m), r) :
        n \in {EmptyMap, [name |-> "daily"]},
        c \in {EmptyMap, [cronExpression |-> "bad"], [cronExpression |-> "c1"]},
        t \in {[task |-> ""], [task |-> "sync"]},
        m \in {EmptyMap, [maxRetries |-> -1], [maxRetries |-> 10],
               [maxRetries |-> 11]},
        r \in {EmptyMap, [retryDelay |-> -1], [retryDelay |-> 3600],
               [retryDelay |-> 3601]}}

\* the handler had it tested maxRetries > 11
CreateAcceptsEleven(body) ==
    LET name == Field(body, "name", "")
        cronExpression == Field(body, "cronExpression", "")
        task == Field(body, "task", "")
        maxRetries == Field(body, "maxRetries", 3)
        retryDelay == Field(body, "retryDelay", 60)
    IN  /\ ~(name = "" \/ cronExpression = "" \/ task = "")
        /\ isValidCronExpression(cronExpression)
        /\ ~(maxRetries < 0 \/ maxRetries > 11)
        /\ ~(retryDelay < 0 \/ retryDelay > 3600)

\* the checks of the create handler; TRUE when the body is accepted
CreateAccepts(body) ==
    LET name == Field(body, "name", "")
        cronExpression == Field(body, "cronExpression", "")
        task == Field(body, "task", "")
        maxRetries == Field(body, "maxRetries", 3)
        retryDelay == Field(body, "retryDelay", 60)
    IN  /\ ~(name = "" \/ cronExpression = "" \/ task = "")
        /\ isValidCronExpression(cronExpression)
        /\ ~(maxRetries < 0 \/ maxRetries > 10)
        /\ ~(retryDelay < 0 \/ retryDelay > 3600)

\* the row INSERT INTO schedules writes
NewRow(body, t) ==
    [name |-> body.name, cronExpression |-> body.cronExpression,
     task |-> body.task, createdAt |-> t, updatedAt |-> t,
     isActive |-> FALSE, progress |-> 0, status |-> "idle",
     maxRetries |-> Field(body, "maxRetries", 3),
     retryDelay |-> Field(body, "retryDelay", 60),
     pe |-> Field(body, "pe", ""), ou |-> Field(body, "ou", NULL),
     scorecard |-> Field(body, "scorecard", NULL),
     includeChildren |-> Field(body, "includeChildren", FALSE),
     lastStatus |-> "", currentJobId |-> NULL, message |-> "",
     lastRun |-> NULL]

Create(body) ==
    /\ serving
    /\ IF CreateAccepts(body)
       THEN /\ nextId < MaxSchedules
            /\ now < MaxTime
            /\ nextId' = nextId + 1
            /\ now' = now + 1
            /\ schedules' = Put(schedules, nextId + 1, NewRow(body, now + 1))
            /\ last' = Spread(Op("create", nextId + 1, 201, NoTimer),
                              [body |-> body])
       ELSE /\ UNCHANGED <<schedules, nextId, now>>
            /\ last' = Spread(Op("create", NULL, 400, NoTimer),
                              [body |-> body])
    /\ UNCHANGED <<job_executions, runningJobs, timers, runs,
                   progressSubscribers, streams, nextJob, serving>>

(* ------------------------ PUT /schedules/:id --------------------------- *)
\* request bodies of PUT /schedules/:id
UpdateBodies ==
    { [cronExpression |-> "bad"],
      [cronExpression |-> "c2", status |-> "running"] }

\* request bodies of PUT /schedules/:id sent while a run goes on: new
\* definition fields, alone and next to values for the run-state fields
UpdateInputs ==
    { [pe |-> "THIS_MONTH", ou |-> 102, includeChildren |-> FALSE],
      [cronExpression |-> "c2", name |-> "nightly", status |-> "idle",
       progress |-> 50, message |-> "edited", currentJobId |-> NULL,
       lastRun |-> NULL, lastStatus |-> "failed", isActive |-> FALSE] }

\* the handler had it written the merged record back whole
UpdatedWholeRecord(merged, t) == Spread(merged, [updatedAt |-> t])

\* the columns the UPDATE statement of the handler sets, taken from merged
UpdatedColumns(merged, t) ==
    [name |-> merged.name, cronExpression |-> merged.cronExpression,
     task |-> merged.task, updatedAt |-> t,
     maxRetries |-> merged.maxRetries, retryDelay |-> merged.retryDelay,
     pe |-> merged.pe, ou |-> merged.ou, scorecard |-> merged.scorecard,
     includeChildren |-> merged.includeChildren]

Update(id, body) ==
    /\ serving
    /\ IF id \notin DOMAIN schedules
       THEN /\ UNCHANGED <<schedules, now>>
            /\ last' = Op("update", id, 404, NoTimer)
       ELSE /\ now < MaxTime
            /\ now' = now + 1
            /\ schedules' =
                 UpdateWhere(schedules, id,
                     UpdatedColumns(Spread(schedules[id], body), now + 1))
            /\ last' = Op("update", id, 200, NoTimer)
    /\ UNCHANGED <<job_executions, runningJobs, timers, runs,
                   progressSubscribers, streams, nextId, nextJob, serving>>

(* -------------------- POST /schedules/:id/start ------------------------ *)
\* the start guard had it tested the run status instead of the enabled flag
StartRejectsOnStatus(schedule) == schedule.status = "running"

\* if (schedule.isActive) return 400 "Schedule is already running"
StartRejects(schedule) == schedule.isActive

Start(id) ==
    /\ serving
    /\ IF id \notin DOMAIN schedules
       THEN /\ UNCHANGED <<schedules, runningJobs, timers, now>>
            /\ last' = Op("start", id, 404, NoTimer)
       ELSE LET schedule == scheduleFromRow(id, schedules[id])
            IN  IF StartRejects(schedule)
                THEN /\ UNCHANGED <<schedules, runningJobs, timers, now>>
                     /\ last' = Op("start", id, 400, NoTimer)
                ELSE IF ~CanArm(schedule)
                THEN \* startScheduleJob threw: caught, 500
                     /\ UNCHANGED <<schedules, runningJobs, timers, now>>
                     /\ last' = Op("start", id, 500, NoTimer)
                ELSE /\ now < MaxTime
                     /\ now' = now + 1
                     /\ timers' = ArmedTimers(timers, schedule,
                                               FreshHandle(timers, runs))
                     /\ runningJobs' = ArmedRegistry(runningJobs, schedule,
                                                    FreshHandle(timers, runs))
                     /\ schedules' =
                          UpdateWhere(schedules, id,
                              [isActive |-> TRUE, updatedAt |-> now + 1,
                               status |-> "idle", progress |-> 0])
                     /\ last' = Op("start", id, 200, FreshHandle(timers, runs))
    /\ UNCHANGED <<job_executions, runs, progressSubscribers, streams,
                   nextId, nextJob, serving>>

(* --------------------- POST /schedules/:id/stop ------------------------ *)
\* the stop handler had it no guard on the enabled flag
StopNeverRejects(schedule) == FALSE

\* if (!schedule.isActive) return 400 "Schedule is not running"
StopRejects(schedule) == ~schedule.isActive

Stop(id) ==
    /\ serving
    /\ IF id \notin DOMAIN schedules
       THEN /\ UNCHANGED <<schedules, runningJobs, timers, now>>
            /\ last' = Op("stop", id, 404, NoTimer)
       ELSE LET schedule == scheduleFromRow(id, schedules[id])
            IN  IF StopRejects(schedule)
                THEN /\ UNCHANGED <<schedules, runningJobs, timers, now>>
                     /\ last' = Op("stop", id, 400, NoTimer)
                ELSE /\ now < MaxTime
                     /\ now' = now + 1
                     /\ timers' = DisarmedTimers(runningJobs, timers, id)
                     /\ runningJobs' = DisarmedRegistry(runningJobs, id)
                     /\ schedules' =
                          UpdateWhere(schedules, id,
                              [isActive |-> FALSE, updatedAt |-> now + 1,
                               status |-> "idle"])
                     /\ last' = Op("stop", id, 200, NoTimer)
    /\ UNCHANGED <<job_executions, runs, progressSubscribers, streams,
                   nextId, nextJob, serving>>

(* ----------------------- DELETE /schedules/:id ------------------------- *)
\* the delete handler had it tested the run status instead of the enabled flag
DeleteDisarmsOnStatus(row) == row.status = "running"

\* if (schedule.isActive) { job.stop(); runningJobs.delete(id) }
DeleteDisarms(row) == row.isActive

Delete(id) ==
    /\ serving
    /\ IF id \notin DOMAIN schedules
       THEN /\ UNCHANGED <<schedules, runningJobs, timers>>
            /\ last' = Op("delete", id, 404, NoTimer)
       ELSE /\ IF DeleteDisarms(schedules[id])
               THEN /\ timers' = DisarmedTimers(runningJobs, timers, id)
                    /\ runningJobs' = DisarmedRegistry(runningJobs, id)
               ELSE UNCHANGED <<runningJobs, timers>>
            /\ schedules' = Drop(schedules, id)
            /\ last' = Op("delete", id, 200,
                          IF DeleteDisarms(schedules[id]) /\ id \in DOMAIN runningJobs
                          THEN runningJobs[id] ELSE NoTimer)
    /\ UNCHANGED <<job_executions, runs, progressSubscribers, streams,
                   now, nextId, nextJob, serving>>

\* GET /schedules/:id: 404 when no row has the id
Get(id) == IF id \in DOMAIN schedules THEN 200 ELSE 404

(* ------------------------ utils.ts queryDHIS2 -------------------------- *)
\* if (status !== "running"): the status is the one of the Schedule object
\* the caller passed, not a fresh read of the row
RunStarts(schedule) == schedule.status # "running"

\* INSERT INTO job_executions (id, scheduleId, startTime, status)
StartedExecutions(ex, jobId, id, startTime) ==
    Put(ex, jobId, [scheduleId |-> id, startTime |-> startTime,
                    endTime |-> NULL, status |-> "running"])

\* the two UPDATE schedules statements that open a run
StartedSchedules(tbl, jobId, id) ==
    UpdateWhere(
        UpdateWhere(tbl, id, [currentJobId |-> jobId, status |-> "running",
                              progress |-> 0, message |-> "Task started"]),
        id, [message |-> "Fetching organisation units"])

\* the frame of a suspended invocation: the destructured parameters, the
\* await it is suspended at, the loop variables, and the timer that fired it
Frame(schedule, h) ==
    [id |-> schedule.id, pe |-> schedule.pe, ou |-> schedule.ou,
     scorecard |-> schedule.scorecard,
     includeChildren |-> schedule.includeChildren,
     pc |-> "units", units |-> <<>>, i |-> 1, timer |-> h]

\* queryDHIS2(schedule) from its call to its first await
Invoke(schedule, h, op) ==
    IF RunStarts(schedule)
    THEN /\ nextJob < MaxJobs
         /\ now < MaxTime
         /\ nextJob' = nextJob + 1
         /\ now' = now + 1
         /\ job_executions' =
              StartedExecutions(job_executions, nextJob + 1, schedule.id, now + 1)
         /\ schedules' = StartedSchedules(schedules, nextJob + 1, schedule.id)
         /\ runs' = Put(runs, nextJob + 1, Frame(schedule, h))
         /\ last' = Op(op, schedule.id, nextJob + 1, h)
    ELSE /\ UNCHANGED <<job_executions, schedules, runs, nextJob, now>>
         /\ last' = Op(op, schedule.id, NULL, h)

\* Math.round((i / totalSteps) * 100)
Progress(i, totalSteps) == (200 * i + totalSteps) \div (2 * totalSteps)

\* the earlier copy of queryDHIS2 in utils.ts:
\* Math.round((i + 1 / totalSteps) * 100), the division binding first
ProgressEarlier(i, totalSteps) ==
    100 * i + (200 + totalSteps) \div (2 * totalSteps)

\* the value both copies of the loop bind to progress = ? at step i of
\* totalSteps; the steps and the two values are recorded
ProgressComputed(i, totalSteps) ==
    /\ last' = [op |-> "progress", id |-> NULL, h |-> NoTimer,
                code |-> Progress(i, totalSteps),
                earlier |-> ProgressEarlier(i, totalSteps),
                i |-> i, totalSteps |-> totalSteps]
    /\ UNCHANGED <<schedules, job_executions, runningJobs, timers, runs,
                   progressSubscribers, streams, now, nextId, nextJob, serving>>

\* UPDATE job_executions SET endTime = ?, status = 'completed' WHERE id = jobId
SealedExecutions(ex, jobId, endTime) ==
    UpdateWhere(ex, jobId, [endTime |-> endTime, status |-> "completed"])

\* the function had it written the terminal state of enabled schedules only
CompletedIfActive(tbl, id, endTime) ==
    IF id \in DOMAIN tbl /\ ~tbl[id].isActive
    THEN tbl
    ELSE UpdateWhere(tbl, id,
             [currentJobId |-> NULL, lastStatus |-> "completed",
              status |-> "completed", progress |-> 100, lastRun |-> endTime,
              message |-> "Task completed successfully"])

\* UPDATE schedules SET currentJobId = NULL, lastStatus = 'completed', ...
CompletedSchedules(tbl, id, endTime) ==
    UpdateWhere(tbl, id,
        [currentJobId |-> NULL, lastStatus |-> "completed",
         status |-> "completed", progress |-> 100, lastRun |-> endTime,
         message |-> "Task completed successfully"])

\* the code after the loop: seal the execution, write the terminal state
Complete(j, tbl) ==
    /\ now < MaxTime
    /\ now' = now + 1
    /\ job_executions' = SealedExecutions(job_executions, j, now + 1)
    /\ schedules' = CompletedSchedules(tbl, runs[j].id, now + 1)
    /\ runs' = Drop(runs, j)
    /\ last' = Op("complete", runs[j].id, j, runs[j].timer)

\* the organisation units request returns
UnitsReturn(j, resp) ==
    /\ j \in DOMAIN runs
    /\ runs[j].pc = "units"
    /\ runs[j].includeChildren \/ Len(resp) = 1
    /\ runs' = [runs EXCEPT ![j].pc = "indicators", ![j].units = resp]
    /\ last' = Op("units", runs[j].id, j, runs[j].timer)
    /\ UNCHANGED <<schedules, job_executions, runningJobs, timers,
                   progressSubscribers, streams, now, nextId, nextJob, serving>>

\* the indicator group request returns; the loop runs to its first await,
\* or, over no unit at all, to the end of the function
IndicatorsReturn(j) ==
    /\ j \in DOMAIN runs
    /\ runs[j].pc = "indicators"
    /\ IF Len(runs[j].units) = 0
       THEN Complete(j, schedules)
       ELSE /\ runs' = [runs EXCEPT ![j].pc = "loop"]
            /\ last' = Op("indicators", runs[j].id, j, runs[j].timer)
            /\ UNCHANGED <<schedules, job_executions, now>>
    /\ UNCHANGED <<runningJobs, timers, progressSubscribers, streams,
                   nextId, nextJob, serving>>

\* UPDATE schedules SET progress = ?, message = ? WHERE id = ?, where id is
\* the loop variable destructured from the organisation unit
ProgressWritten(tbl, unitId, i, totalSteps) ==
    UpdateWhere(tbl, unitId,
        [progress |-> Progress(i, totalSteps),
         message |-> "Completed step " \o ToString(i) \o " of "
                         \o ToString(totalSteps) \o " ("
                         \o ToString(unitId) \o ")"])

\* one iteration of the loop: its requests settle (their failures are caught
\* inside the iteration), the progress is written, and the function goes on
\* to the next await or to its end
UnitStep(j) ==
    /\ j \in DOMAIN runs
    /\ runs[j].pc = "loop"
    /\ LET i == runs[j].i
           totalSteps == Len(runs[j].units)
           written == ProgressWritten(schedules, runs[j].units[i], i, totalSteps)
       IN  IF i = totalSteps
           THEN Complete(j, written)
           ELSE /\ schedules' = written
                /\ runs' = [runs EXCEPT ![j].i = i + 1]
                /\ last' = Op("unit", runs[j].id, j, runs[j].timer)
                /\ UNCHANGED <<job_executions, now>>
    /\ UNCHANGED <<runningJobs, timers, progressSubscribers, streams,
                   nextId, nextJob, serving>>

\* the callback had it no catch: the failed invocation takes its task down
UncaughtTimers(ts, h) == {t \in ts : t.h # h}

\* startScheduleJob's callback: catch (error) { console.error(...) }; the
\* started tasks after an invocation raised
CaughtTimers(ts, h) == ts

\* the registry after an invocation raised
CaughtRegistry(reg, id) == reg

\* a request outside every try block (organisation units, indicator group)
\* fails: queryDHIS2 rejects, nothing after the await runs
Raise(j) ==
    /\ j \in DOMAIN runs
    /\ runs[j].pc \in {"units", "indicators"}
    /\ runs' = Drop(runs, j)
    /\ timers' = CaughtTimers(timers, runs[j].timer)
    /\ runningJobs' = CaughtRegistry(runningJobs, runs[j].id)
    /\ last' = Op("raise", runs[j].id, j, runs[j].timer)
    /\ UNCHANGED <<schedules, job_executions, progressSubscribers, streams,
                   now, nextId, nextJob, serving>>

\* a tick of a started task: the callback calls func(schedule) with the
\* Schedule object captured when the task was created
Fire(t) ==
    /\ serving
    /\ t \in timers
    /\ Invoke(t.schedule, t.h, "fire")
    /\ UNCHANGED <<runningJobs, timers, progressSubscribers, streams,
                   nextId, serving>>

\* runManually(id): reads the row and passes it to queryDHIS2
ManualRun(id) ==
    /\ IF id \notin DOMAIN schedules
       THEN /\ UNCHANGED <<job_executions, schedules, runs, nextJob, now>>
            /\ last' = Op("manual", id, NULL, NoTimer)
       ELSE Invoke(Spread(schedules[id], [id |-> id]), NoTimer, "manual")
    /\ UNCHANGED <<runningJobs, timers, progressSubscribers, streams,
                   nextId, serving>>

(* ------------------- GET /schedules/:id/progress ----------------------- *)
\* the handler had it built the record without reading the row
InitialUpdateIdle(id, row, t) ==
    [scheduleId |-> id, progress |-> 0, status |-> "idle", timestamp |-> t]

\* the first record of a stream: progress: schedule.progress || 0,
\* status: schedule.status || "idle", no message
InitialUpdate(id, row, t) ==
    [scheduleId |-> id,
     progress |-> IF row.progress = 0 THEN 0 ELSE row.progress,
     status |-> IF row.status = "" THEN "idle" ELSE row.status,
     timestamp |-> t]

\* if (!progressSubscribers.has(id)) progressSubscribers.set(id, new Set());
\* progressSubscribers.get(id)?.add(subscriber)
Subscribed(subs, id, h) ==
    Put(subs, id, (IF id \in DOMAIN subs THEN subs[id] ELSE {}) \cup {h})

\* the abort callback had it no second statement: the emptied set stays
UnsubscribedKeepsSet(subs, id, h) ==
    IF id \notin DOMAIN subs THEN subs ELSE Put(subs, id, subs[id] \ {h})

\* stream.onAbort: progressSubscribers.get(id)?.delete(subscriber);
\* if (progressSubscribers.get(id)?.size === 0) progressSubscribers.delete(id)
Unsubscribed(subs, id, h) ==
    IF id \notin DOMAIN subs
    THEN subs
    ELSE IF subs[id] \ {h} = {}
         THEN Drop(subs, id)
         ELSE Put(subs, id, subs[id] \ {h})

\* the handler up to the end of the stream callback: the row is read, the
\* subscriber is registered and is written the initial record
Subscribe(id) ==
    /\ serving
    /\ IF id \notin DOMAIN schedules
       THEN /\ UNCHANGED <<progressSubscribers, streams, now>>
            /\ last' = Op("subscribe", id, 404, NoTimer)
       ELSE LET h == Cardinality(DOMAIN streams) + 1
            IN  /\ h <= MaxSubs
                /\ now < MaxTime
                /\ now' = now + 1
                /\ progressSubscribers' = Subscribed(progressSubscribers, id, h)
                /\ streams' =
                     Put(streams, h,
                         [id |-> id, aborted |-> FALSE,
                          written |-> <<InitialUpdate(id, schedules[id], now + 1)>>])
                /\ last' = Op("subscribe", id, 200, h)
    /\ UNCHANGED <<schedules, job_executions, runningJobs, timers, runs,
                   nextId, nextJob, serving>>

\* the abort callback of stream h runs (a connection may report its abort
\* more than once)
Abort(h) ==
    /\ serving
    /\ h \in DOMAIN streams
    /\ progressSubscribers' =
         Unsubscribed(progressSubscribers, streams[h].id, h)
    /\ streams' = [streams EXCEPT ![h].aborted = TRUE]
    /\ last' = Spread(Op("abort", streams[h].id, 0, h),
                       [again |-> streams[h].aborted])
    /\ UNCHANGED <<schedules, job_executions, runningJobs, timers, runs,
                   now, nextId, nextJob, serving>>

\* the updates a caller of broadcastProgress passes: progress and status
PublishedStates == {[progress |-> 50, status |-> "running"]}

\* a call broadcastProgress(update) of the exported function, with an update
\* built at a fresh instant
Publish(id, st) ==
    /\ serving
    /\ now < MaxTime
    /\ now' = now + 1
    /\ streams' =
         broadcastProgress(progressSubscribers, streams,
             ProgressUpdate(id, st.progress, st.status, "published", now + 1))
    /\ last' = Op("publish", id, 0, NoTimer)
    /\ UNCHANGED <<schedules, job_executions, runningJobs, timers, runs,
                   progressSubscribers, nextId, nextJob, serving>>

(* ----------------------- next run of a schedule ----------------------- *)
\* a call getNextRunTime(cronExp) at the current instant; the expression,
\* the instant and the result are recorded
NextRunTime(cronExp) ==
    /\ last' = Spread(Op("nextRun", NULL, getNextRunTime(cronExp, now), NoTimer),
                      [cronExp |-> cronExp, from |-> now])
    /\ UNCHANGED <<schedules, job_executions, runningJobs, timers, runs,
                   progressSubscribers, streams, now, nextId, nextJob, serving>>

(* ------------------- start-up: initializeSystem ------------------------ *)
\* the orders in which SELECT * FROM schedules WHERE isActive = 1 can
\* return the rows of S (the statement has no ORDER BY)
Orders(S) ==
    {o \in [1..Cardinality(S) -> S] :
        \A a, b \in 1..Cardinality(S) : o[a] = o[b] => a = b}

\* restoreActiveSchedules: the loop over the active rows from row k of the
\* order on; startScheduleJob is not guarded, so the first expression
\* node-cron rejects ends the loop and the call
RECURSIVE restoreActiveSchedules(_, _, _, _, _)
restoreActiveSchedules(tbl, order, k, reg, ts) ==
    IF k > Len(order)
    THEN [ok |-> TRUE, runningJobs |-> reg, timers |-> ts]
    ELSE LET schedule == scheduleFromRow(order[k], tbl[order[k]])
         IN  IF ~CanArm(schedule)
             THEN [ok |-> FALSE, runningJobs |-> reg, timers |-> ts]
             ELSE restoreActiveSchedules(tbl, order, k + 1,
                      ArmedRegistry(reg, schedule, FreshHandle(ts, EmptyMap)),
                      ArmedTimers(ts, schedule, FreshHandle(ts, EmptyMap)))

\* start-up had it no call of restoreActiveSchedules
initializeBare(tbl, order) ==
    [ok |-> TRUE, runningJobs |-> EmptyMap, timers |-> {}]

\* initializeSystem: initializeDatabase(), then restoreActiveSchedules; the
\* call of cleanupRunningJobs is commented out
initializeSystem(tbl, order) ==
    restoreActiveSchedules(tbl, order, 1, EmptyMap, {})

\* the server process exits (at any point between two steps) and is started
\* again: its timers, its suspended invocations and its subscribers are
\* gone, the tables are as they were, and the module runs initializeSystem.
\* An exception out of initializeSystem ends the new process at once.
Restart ==
    /\ \E order \in Orders({id \in DOMAIN schedules : schedules[id].isActive}) :
          LET up == initializeSystem(schedules, order)
          IN  /\ serving' = up.ok
              /\ runningJobs' = IF up.ok THEN up.runningJobs ELSE EmptyMap
              /\ timers' = IF up.ok THEN up.timers ELSE {}
    /\ runs' = [j \in {r \in DOMAIN runs : runs[r].timer = NoTimer} |-> runs[j]]
    /\ progressSubscribers' = EmptyMap
    /\ streams' = EmptyMap
    /\ last' = Op("init", NULL, 0, NoTimer)
    /\ UNCHANGED <<schedules, job_executions, now, nextId, nextJob>>

(* --------------------------- specification ----------------------------- *)
Ids == 1..MaxSchedules

Jobs == 1..MaxJobs

\* the server process: its request handlers, its timers, the invocations of
\* the job body its timers made, and its restarts
Next ==
    \/ \E body \in CreateBodies : Create(body)
    \/ \E id \in Ids, body \in UpdateBodies : Update(id, body)
    \/ \E id \in Ids : Start(id)
    \/ \E id \in Ids : Stop(id)
    \/ \E id \in Ids : Delete(id)
    \/ \E t \in timers : Fire(t)
    \/ \E j \in Jobs, resp \in UnitResponses : UnitsReturn(j, resp)
    \/ \E j \in Jobs : IndicatorsReturn(j)
    \/ \E j \in Jobs : UnitStep(j)
    \/ \E j \in Jobs : Raise(j)
    \/ Restart

Spec == Init /\ [][Next]_vars

\* the server process next to runs of the runManually script, which works
\* on the same tables from a process of its own
NextManual ==
    \/ Next
    \/ \E id \in Ids : ManualRun(id)

SpecManual == Init /\ [][NextManual]_vars

\* the server process with clients of its progress streams
NextStream ==
    \/ Next
    \/ \E id \in Ids : Subscribe(id)
    \/ \E h \in 1..MaxSubs : Abort(h)

SpecStream == Init /\ [][NextStream]_vars

\* the request bodies of POST /schedules that the handler accepts
AcceptedBodies == {body \in CreateBodies : CreateAccepts(body)}

\* the life of a run: schedules are created, started and stopped, their
\* timers fire, and the invocations of the job body go their way
NextRun ==
    \/ \E body \in AcceptedBodies : Create(body)
    \/ \E id \in Ids : Start(id)
    \/ \E id \in Ids : Stop(id)
    \/ \E t \in timers : Fire(t)
    \/ \E j \in Jobs, resp \in UnitResponses : UnitsReturn(j, resp)
    \/ \E j \in Jobs : IndicatorsReturn(j)
    \/ \E j \in Jobs : UnitStep(j)
    \/ \E j \in Jobs : Raise(j)

SpecRun == InitFeature /\ [][NextRun]_vars

\* the progress streams next to the runs that change what they report
NextProgress ==
    \/ \E body \in AcceptedBodies : Create(body)
    \/ \E id \in Ids : Start(id)
    \/ \E t \in timers : Fire(t)
    \/ \E j \in Jobs, resp \in UnitResponses : UnitsReturn(j, resp)
    \/ \E j \in Jobs : IndicatorsReturn(j)
    \/ \E j \in Jobs : UnitStep(j)
    \/ \E id \in Ids : Subscribe(id)
    \/ \E id \in Ids, st \in PublishedStates : Publish(id, st)

SpecProgress == InitFeature /\ [][NextProgress]_vars

\* the create handler over its request bodies, next to deletes
NextCreate ==
    \/ \E body \in CreateInputs : Create(body)
    \/ \E id \in Ids : Delete(id)

SpecCreate == InitFeature /\ [][NextCreate]_vars

\* the cron evaluator: next run times are asked for every expression
NextCron == \E cronExp \in CronExpressions : NextRunTime(cronExp)

SpecCron == InitCron /\ [][NextCron]_vars

\* the progress arithmetic of the loop over every step of every run length
NextSteps ==
    \E totalSteps \in 1..MaxUnits : \E i \in 1..totalSteps :
        ProgressComputed(i, totalSteps)

SpecSteps == InitFeature /\ [][NextSteps]_vars

\* updates next to runs: schedules are created, started and updated while
\* their timers fire and the invocations of the job body go their way
NextUpdate ==
    \/ \E body \in AcceptedBodies : Create(body)
    \/ \E id \in Ids, body \in UpdateInputs : Update(id, body)
    \/ \E id \in Ids : Start(id)
    \/ \E t \in timers : Fire(t)
    \/ \E j \in Jobs, resp \in UnitResponses : UnitsReturn(j, resp)
    \/ \E j \in Jobs : IndicatorsReturn(j)
    \/ \E j \in Jobs : UnitStep(j)

SpecUpdate == InitFeature /\ [][NextUpdate]_vars

\* the registry and the store: schedules are created, updated, started,
\* stopped and deleted, and the process restarts
NextRegistry ==
    \/ \E body \in AcceptedBodies : Create(body)
    \/ \E id \in Ids, body \in UpdateBodies : Update(id, body)
    \/ \E id \in Ids : Start(id)
    \/ \E id \in Ids : Stop(id)
    \/ \E id \in Ids : Delete(id)
    \/ Restart

SpecRegistry == InitFeature /\ [][NextRegistry]_vars

\* the broadcaster: streams are opened and aborted, updates are published,
\* schedules come and go and the process restarts
NextBroadcast ==
    \/ \E body \in AcceptedBodies : Create(body)
    \/ \E id \in Ids : Delete(id)
    \/ \E id \in Ids : Subscribe(id)
    \/ \E h \in 1..MaxSubs : Abort(h)
    \/ \E id \in Ids, st \in PublishedStates : Publish(id, st)
    \/ Restart

SpecBroadcast == InitFeature /\ [][NextBroadcast]_vars

(* ------------------------------ claims --------------------------------- *)
\* the started tasks that fire for schedule id
TimersOf(ts, id) == {t \in ts : t.schedule.id = id}

\* the executions of schedule id that are not sealed
RunningExecutions(id) ==
    {j \in DOMAIN job_executions :
        /\ job_executions[j].scheduleId = id
        /\ job_executions[j].status = "running"}

\* C1: in every reachable state every schedule has status 'running' if and
\* only if its currentJobId is non-null.
C1_RunningIffJobId ==
    \A id \in DOMAIN schedules :
        (schedules[id].status = "running") <=> (schedules[id].currentJobId # NULL)

\* C2: at any time job_executions holds at most one row with status
\* 'running' for each schedule id.
C2_OneRunningExecution ==
    \A id \in Ids : Cardinality(RunningExecutions(id)) <= 1

\* C3: a timer fire or manual run for a schedule whose persisted status is
\* 'running' at that moment inserts no execution row and changes no field of
\* any schedule row.
C3_NoSecondRun ==
    [][\A id \in DOMAIN schedules :
          (/\ last'.op \in {"fire", "manual"}
           /\ last'.id = id
           /\ schedules[id].status = "running")
          => (job_executions' = job_executions /\ schedules' = schedules)]_vars

\* C4: a start request for a schedule that is already enabled (started, not
\* stopped since) is answered 400 "already running", changes neither the
\* store nor the registry, and leaves exactly one started task for the id,
\* the one the registry holds.
C4_SecondStartRejected ==
    [][\A id \in DOMAIN schedules :
          (last'.op = "start" /\ last'.id = id /\ schedules[id].isActive)
          => /\ last'.code = 400
             /\ UNCHANGED <<schedules, runningJobs, timers>>
             /\ Cardinality(TimersOf(timers', id)) = 1
             /\ id \in DOMAIN runningJobs'
             /\ \A t \in TimersOf(timers', id) : t.h = runningJobs'[id]]_vars

\* a second start was rejected and one task fires for the schedule
C4_Witness ==
    /\ last.op = "start"
    /\ last.code = 400
    /\ last.id \in DOMAIN schedules
    /\ schedules[last.id].isActive
    /\ Cardinality(TimersOf(timers, last.id)) = 1

\* C5: when start-up initialization has completed, no schedule has persisted
\* status 'running'.
C5_RecoveryClearsRunning ==
    (last.op = "init" /\ serving)
    => \A id \in DOMAIN schedules : schedules[id].status # "running"

\* C6: when the job body has raised, the schedule has status 'failed' and a
\* cleared currentJobId, and the run's execution is sealed as 'failed' with
\* an end time.
C6_RaiseRecorded ==
    last.op = "raise"
    => /\ last.id \in DOMAIN schedules
          => /\ schedules[last.id].status = "failed"
             /\ schedules[last.id].currentJobId = NULL
       /\ job_executions[last.code].status = "failed"
       /\ job_executions[last.code].endTime # NULL

\* C7: start-up completes whatever the persisted recurrence expressions are,
\* and arms every enabled schedule whose expression the timer library
\* accepts.
C7_RestoreIsolatesFailures ==
    last.op = "init"
    => /\ serving
       /\ \A id \in DOMAIN schedules :
             (schedules[id].isActive /\ CanArm(scheduleFromRow(id, schedules[id])))
             => /\ id \in DOMAIN runningJobs
                /\ Cardinality(TimersOf(timers, id)) = 1

\* C8: once a schedule has been deleted, the registry holds no timer for its
\* id, no started task fires for it, and get(id) answers not found; this
\* holds from the state the delete returns in onwards.
C8_DeletedHasNoTimer ==
    \A id \in 1..nextId :
        id \notin DOMAIN schedules
        => /\ id \notin DOMAIN runningJobs
           /\ TimersOf(timers, id) = {}
           /\ Get(id) = 404

\* an enabled schedule was deleted and its task was stopped
C8_Witness ==
    /\ last.op = "delete"
    /\ last.code = 200
    /\ last.h # NoTimer
    /\ last.id \notin DOMAIN schedules
    /\ TimersOf(timers, last.id) = {}

\* C9: a stop request for a schedule that is not enabled is answered 400
\* "not running" and changes neither the tables nor the registry nor the
\* started tasks.
C9_StopInactiveRejected ==
    [][\A id \in DOMAIN schedules :
          (last'.op = "stop" /\ last'.id = id /\ ~schedules[id].isActive)
          => /\ last'.code = 400
             /\ UNCHANGED <<schedules, job_executions, runningJobs, timers>>]_vars

\* a stop of a schedule that is not enabled was rejected
C9_Witness ==
    /\ last.op = "stop"
    /\ last.code = 400
    /\ last.id \in DOMAIN schedules
    /\ ~schedules[last.id].isActive

\* C10: when the job body of a fire raises, the started tasks and the
\* registry are what they were, and the task that fired still holds a
\* Schedule object for which the job body starts a run at its next fire.
C10_RaiseKeepsTimer ==
    [][(last'.op = "raise" /\ last'.h # NoTimer)
          => /\ timers' = timers
             /\ runningJobs' = runningJobs
             /\ \A t \in timers : t.h = last'.h =>
                   /\ t \in timers'
                   /\ t.schedule.id = last'.id
                   /\ RunStarts(t.schedule)]_vars

\* the job body of a fire raised and the task that fired is still started
\* and registered
C10_Witness ==
    /\ last.op = "raise"
    /\ last.h # NoTimer
    /\ last.id \in DOMAIN runningJobs
    /\ runningJobs[last.id] = last.h
    /\ \E t \in timers : t.h = last.h /\ t.schedule.id = last.id


\* the record a step appended to stream h, or <<>> when it appended none
Appended(h) ==
    IF Len(streams'[h].written) = Len(streams[h].written) + 1
    THEN <<streams'[h].written[Len(streams'[h].written)]>>
    ELSE <<>>

\* C11: every step of the job body that persists a schedule's status and
\* progress (the start of a run: running/0, its completion: completed/100)
\* delivers to every subscriber of that schedule one progress event with the
\* same scheduleId, status and progress.
C11_RunPublishes ==
    [][(/\ \/ last'.op = "fire" /\ last'.code # NULL
           \/ last'.op = "complete"
        /\ last'.id \in DOMAIN schedules'
        /\ last'.id \in DOMAIN progressSubscribers)
       => \A h \in progressSubscribers[last'.id] :
            /\ Appended(h) # <<>>
            /\ Appended(h)[1].scheduleId = last'.id
            /\ Appended(h)[1].status = schedules'[last'.id].status
            /\ Appended(h)[1].progress = schedules'[last'.id].progress]_vars

\* the streams a client holds open on schedule id
OpenStreams(strs, id) ==
    {h \in DOMAIN strs : strs[h].id = id /\ ~strs[h].aborted}

\* the subscribers registered for schedule id
Registered(subs, id) == IF id \in DOMAIN subs THEN subs[id] ELSE {}

\* C12: a call broadcastProgress(update) appends exactly one record, the
\* update, to the stream of every subscriber registered for
\* update.scheduleId, and leaves every other stream as it is; when no
\* subscriber is registered for the id it changes nothing.
C12_BroadcastDelivers ==
    [][last'.op = "publish"
       => /\ DOMAIN streams' = DOMAIN streams
          /\ progressSubscribers' = progressSubscribers
          /\ \A h \in DOMAIN streams :
                IF h \in Registered(progressSubscribers, last'.id)
                THEN /\ Len(streams'[h].written) = Len(streams[h].written) + 1
                     /\ SubSeq(streams'[h].written, 1, Len(streams[h].written))
                            = streams[h].written
                     /\ \E st \in PublishedStates :
                            Appended(h)[1] =
                                ProgressUpdate(last'.id, st.progress, st.status,
                                               "published", now')
                ELSE streams'[h] = streams[h]
          /\ Registered(progressSubscribers, last'.id) = {}
                => streams' = streams]_vars

\* C12 witness: an update was just published for a schedule with an open
\* stream, which holds it as its last record, while another schedule has an
\* open stream too, which holds its initial record only.
C12_Witness ==
    /\ last.op = "publish"
    /\ \E h1, h2 \in DOMAIN streams :
          /\ h1 \in Registered(progressSubscribers, last.id)
          /\ streams[h1].written[Len(streams[h1].written)].message = "published"
          /\ streams[h1].written[Len(streams[h1].written)].timestamp = now
          /\ streams[h2].id # last.id
          /\ h2 \in Registered(progressSubscribers, streams[h2].id)
          /\ Len(streams[h2].written) = 1

\* C13: the handler of GET /schedules/:id/progress writes the new stream one
\* record carrying the schedule's persisted progress and status, and no
\* stream ever holds, after its first record, a record built before it (no
\* event published before the subscription is replayed).
C13_InitialIsPersisted ==
    [][/\ (last'.op = "subscribe" /\ last'.code = 200)
           => /\ last'.h \notin DOMAIN streams
              /\ Len(streams'[last'.h].written) = 1
              /\ streams'[last'.h].written[1].scheduleId = last'.id
              /\ streams'[last'.h].written[1].progress
                     = schedules[last'.id].progress
              /\ streams'[last'.h].written[1].status
                     = schedules[last'.id].status
       /\ \A h \in DOMAIN streams' :
             \A k \in 2..Len(streams'[h].written) :
                streams'[h].written[k].timestamp
                   > streams'[h].written[1].timestamp]_vars

\* C13 witness: a client subscribed to a schedule whose run was going on,
\* was written running/0 first, and has been written a later event since.
C13_Witness ==
    \E h \in DOMAIN streams :
        /\ Len(streams[h].written) = 2
        /\ streams[h].written[1].status = "running"
        /\ streams[h].written[1].progress = 0
        /\ schedules[streams[h].id].currentJobId # NULL
        /\ streams[h].written[2].timestamp > streams[h].written[1].timestamp

\* C14: in every reachable state the subscriber map holds, for every
\* schedule id, exactly the handles subscribed to it and not yet
\* unsubscribed, and maps no id to an empty set; unsubscribing a handle a
\* second time changes nothing.
C14_SubscriberMapExact ==
    [][/\ \A id \in Ids :
             Registered(progressSubscribers', id) = OpenStreams(streams', id)
       /\ \A id \in DOMAIN progressSubscribers' :
             progressSubscribers'[id] # {}
       /\ (last'.op = "abort" /\ last'.again)
             => /\ progressSubscribers' = progressSubscribers
                /\ streams' = streams]_vars

\* C14 witness: a handle was just unsubscribed a second time while the
\* other handle stays subscribed.
C14_Witness ==
    /\ last.op = "abort"
    /\ last.again
    /\ \E h \in DOMAIN streams :
          /\ h # last.h
          /\ ~streams[h].aborted
          /\ h \in Registered(progressSubscribers, streams[h].id)

\* C15: an update whose resulting fields fail the checks of create is
\* rejected, so in every reachable state every stored schedule passes them
\* (name, cronExpression and task present, a valid cron expression,
\* maxRetries in 0..10, retryDelay in 0..3600).
C15_StoredSchedulesValid ==
    \A id \in DOMAIN schedules : CreateAccepts(schedules[id])

\* field f is present in the body and not empty
Present(body, f) == f \in DOMAIN body /\ body[f] # ""

\* field f of the body, when given, lies in lo..hi
InRange(body, f, lo, hi) == f \in DOMAIN body => body[f] \in lo..hi

\* C16: create accepts a body exactly when name, cronExpression and task
\* are present, the cron expression is valid, maxRetries is in 0..10 and
\* retryDelay in 0..3600 (each 3 and 60 when not given); an accepted create
\* adds one row under an id never handed out before, with the body's
\* fields, status 'idle', progress 0 and isActive false, and changes no
\* other row; a rejected create leaves the table unchanged.
C16_CreateValidates ==
    [][last'.op = "create"
       => /\ last'.code = 201
                <=> /\ Present(last'.body, "name")
                    /\ Present(last'.body, "cronExpression")
                    /\ Present(last'.body, "task")
                    /\ last'.body.cronExpression \in ValidCron
                    /\ InRange(last'.body, "maxRetries", 0, 10)
                    /\ InRange(last'.body, "retryDelay", 0, 3600)
          /\ last'.code = 201
                => /\ last'.id > nextId
                   /\ last'.id \notin DOMAIN schedules
                   /\ DOMAIN schedules' = DOMAIN schedules \cup {last'.id}
                   /\ \A id \in DOMAIN schedules :
                         schedules'[id] = schedules[id]
                   /\ schedules'[last'.id].status = "idle"
                   /\ schedules'[last'.id].progress = 0
                   /\ schedules'[last'.id].isActive = FALSE
                   /\ schedules'[last'.id].name = last'.body.name
                   /\ schedules'[last'.id].maxRetries \in 0..10
                   /\ schedules'[last'.id].retryDelay \in 0..3600
                   /\ "maxRetries" \in DOMAIN last'.body
                         => schedules'[last'.id].maxRetries
                               = last'.body.maxRetries
          /\ last'.code # 201
                => /\ last'.code = 400
                   /\ schedules' = schedules
                   /\ nextId' = nextId]_vars

\* C16 witness: a create with maxRetries 10 and retryDelay 3600 was just
\* accepted next to an earlier schedule, and its row is idle and disabled.
C16_Witness ==
    /\ last.op = "create"
    /\ last.code = 201
    /\ "maxRetries" \in DOMAIN last.body /\ last.body.maxRetries = 10
    /\ "retryDelay" \in DOMAIN last.body /\ last.body.retryDelay = 3600
    /\ Cardinality(DOMAIN schedules) = 2
    /\ schedules[last.id].status = "idle"
    /\ schedules[last.id].retryDelay = 3600
    /\ ~schedules[last.id].isActive

\* C17 as stated: for every expression isValidCronExpression accepts,
\* getNextRunTime returns a non-null instant strictly later than the
\* instant it is evaluated at.
C17_ValidHasNextRun ==
    (last.op = "nextRun" /\ isValidCronExpression(last.cronExp))
        => (last.code # NULL /\ last.code > last.from)

\* C17 amended: for every expression isValidCronExpression accepts,
\* getNextRunTime returns null or an instant strictly later than the instant
\* it is evaluated at; it returns null when cron-parser does not take the
\* expression (no date matches it, or it names a month in full), and
\* otherwise the earliest matching instant after the instant of evaluation.
C17_NextRunNullOrLater ==
    (last.op = "nextRun" /\ isValidCronExpression(last.cronExp))
        => /\ last.code = NULL \/ last.code > last.from
           /\ ~CronParses(last.cronExp) => last.code = NULL
           /\ CronParses(last.cronExp)
                 => /\ last.code > last.from
                    /\ CronMatches(last.cronExp, last.code)
                    /\ \A y \in (last.from + 1)..(last.code - 1) :
                          ~CronMatches(last.cronExp, y)

\* C17 witness: the next run time of an expression both libraries take was
\* asked at an instant the expression matches, and is a later instant.
C17_Witness ==
    /\ last.op = "nextRun"
    /\ isValidCronExpression(last.cronExp)
    /\ CronMatches(last.cronExp, last.from)
    /\ last.code > last.from

\* C18: a stop of an enabled schedule leaves no started task for its id and
\* leaves every invocation of the job body in flight as it is; when such an
\* invocation reaches its end it writes status 'completed', progress 100
\* and currentJobId null to the schedule and seals its execution, whether
\* or not the schedule is still enabled.
C18_StopSparesRun ==
    [][/\ (last'.op = "stop" /\ last'.code = 200)
           => /\ TimersOf(timers', last'.id) = {}
              /\ last'.id \notin DOMAIN runningJobs'
              /\ runs' = runs
              /\ job_executions' = job_executions
              /\ ~schedules'[last'.id].isActive
       /\ last'.op = "complete"
           => /\ last'.code \in DOMAIN runs
              /\ last'.code \notin DOMAIN runs'
              /\ schedules'[last'.id].status = "completed"
              /\ schedules'[last'.id].progress = 100
              /\ schedules'[last'.id].currentJobId = NULL
              /\ schedules'[last'.id].isActive = schedules[last'.id].isActive
              /\ job_executions'[last'.code].status = "completed"
              /\ job_executions'[last'.code].endTime = now'
              /\ job_executions'[last'.code].endTime # NULL]_vars

\* C18 witness: a run just reached its end on a schedule that was stopped
\* while the run was in flight: the schedule is disabled, has no started
\* task, and carries the terminal state of the run.
C18_Witness ==
    /\ last.op = "complete"
    /\ ~schedules[last.id].isActive
    /\ TimersOf(timers, last.id) = {}
    /\ schedules[last.id].updatedAt > job_executions[last.code].startTime
    /\ schedules[last.id].status = "completed"
    /\ schedules[last.id].progress = 100
    /\ schedules[last.id].currentJobId = NULL
    /\ job_executions[last.code].status = "completed"

\* C19: when an invocation of the job body has processed the i-th of its N
\* organisation units, the schedule it runs for has persisted progress
\* round(i / N * 100) (and so its progress never decreases during the run).
C19_UnitProgressPersisted ==
    [][last'.op = "unit"
       => /\ schedules'[last'.id].progress
                = Progress(runs[last'.code].i, Len(runs[last'.code].units))
          /\ schedules'[last'.id].progress >= schedules[last'.id].progress]_vars

\* C20: every progress value the job body computes for step i of N
\* organisation units (1 <= i <= N) and binds to the progress column of the
\* schedules table is an integer in 0..100, and every stored schedule's
\* progress is within 0..100.
C20_ProgressWithinPercent ==
    /\ last.op = "progress"
          => /\ last.code \in 0..100
             /\ last.earlier \in 0..100
    /\ \A id \in DOMAIN schedules : schedules[id].progress \in 0..100

\* the columns that hold a schedule's definition
DefinitionFields ==
    {"name", "cronExpression", "task", "maxRetries", "retryDelay", "pe", "ou",
     "scorecard", "includeChildren", "updatedAt"}

\* the columns that hold a schedule's run state
RunStateFields ==
    {"status", "progress", "message", "currentJobId", "lastRun", "lastStatus",
     "isActive"}

\* the steps of an invocation of the job body
RunSteps == {"fire", "units", "indicators", "unit", "complete"}

\* C21: an update, at whatever point of a run of the job body it arrives,
\* changes definition fields only (name, cronExpression, task, maxRetries,
\* retryDelay, pe, ou, scorecard, includeChildren, updatedAt) and leaves
\* status, progress, message, currentJobId, lastRun, lastStatus and
\* isActive as stored; no step of the job body changes a definition field.
C21_UpdateSparesRunState ==
    [][/\ (last'.op = "update" /\ last'.code = 200)
           => /\ DOMAIN schedules' = DOMAIN schedules
              /\ \A f \in RunStateFields \cup {"createdAt"} :
                    schedules'[last'.id][f] = schedules[last'.id][f]
              /\ \A id \in DOMAIN schedules \ {last'.id} :
                    schedules'[id] = schedules[id]
       /\ last'.op \in RunSteps
           => /\ DOMAIN schedules' = DOMAIN schedules
              /\ \A id \in DOMAIN schedules :
                    \A f \in DefinitionFields \cup {"createdAt"} :
                       schedules'[id][f] = schedules[id][f]]_vars

\* C21 witness: an update that carried status 'idle', isActive false and a
\* new cron expression was just answered while a run of the schedule was
\* suspended: the row has the new expression and is still running, enabled
\* and bound to its execution.
C21_Witness ==
    /\ last.op = "update"
    /\ last.code = 200
    /\ \E j \in DOMAIN runs : runs[j].id = last.id
    /\ schedules[last.id].cronExpression = "c2"
    /\ schedules[last.id].name = "nightly"
    /\ schedules[last.id].updatedAt = now
    /\ schedules[last.id].status = "running"
    /\ schedules[last.id].currentJobId # NULL
    /\ schedules[last.id].isActive

\* the registry holds a started task for schedule id
Armed(id) ==
    /\ id \in DOMAIN runningJobs
    /\ \E t \in TimersOf(timers, id) : t.h = runningJobs[id]

\* C22: in every state of a serving process (after start-up and after each
\* request), a schedule id has a started task in the registry exactly when
\* its row exists with isActive true, and then that task is the only
\* started task of the id; other ids have none.
C22_RegistryAgreesWithStore ==
    serving
    => \A id \in Ids :
          /\ Armed(id) <=> (id \in DOMAIN schedules /\ schedules[id].isActive)
          /\ id \in DOMAIN runningJobs => Armed(id)
          /\ Cardinality(TimersOf(timers, id)) = IF Armed(id) THEN 1 ELSE 0

\* C22 witness: the process has just started up and serves, with one
\* schedule enabled and armed again and another one stored, stopped and
\* without a task.
C22_Witness ==
    /\ last.op = "init"
    /\ serving
    /\ \E a, b \in DOMAIN schedules :
          /\ schedules[a].isActive /\ Armed(a)
          /\ ~schedules[b].isActive /\ ~Armed(b)
          /\ schedules[b].updatedAt > schedules[b].createdAt
          /\ schedules[b].cronExpression = "c1"

\* C23: every fire of a started task runs on the stored definition of its
\* schedule: the recurrence expression the task follows and the parameters
\* (pe, ou, scorecard, includeChildren) it passes to the job body are those
\* of the row, also after an update changed them.
C23_TimerFollowsUpdate ==
    [][last'.op = "fire"
       => \A t \in timers :
             (t.h = last'.h /\ last'.id \in DOMAIN schedules)
             => \A f \in {"cronExpression", "pe", "ou", "scorecard",
                          "includeChildren"} :
                   t.schedule[f] = schedules[last'.id][f]]_vars

\* C24: after a restart every enabled schedule is armed again and a fire of
\* its task starts a run and creates its execution record, whatever status,
\* 'running' included, the row had when the previous process exited.
C24_FireAfterRestartRuns ==
    [][/\ (last'.op = "init" /\ serving')
           => \A id \in DOMAIN schedules :
                 schedules[id].isActive
                 => Cardinality(TimersOf(timers', id)) = 1
       /\ (last.op = "init" /\ last'.op = "fire")
           => /\ last'.code # NULL
              /\ last'.code \notin DOMAIN job_executions
              /\ last'.code \in DOMAIN job_executions'
              /\ job_executions'[last'.code].scheduleId = last'.id
              /\ last'.code \in DOMAIN runs']_vars

====
